---- MODULE Spec2Model ----
(***************************************************************************)
(* Asynchronous task relay of upload-docs: the API-side producer           *)
(* (backend/src/prompt_agent/routes.ts) and the worker-side consumer       *)
(* (backend/src/prompt_agent/worker.ts).  The two are separate processes,  *)
(* so each has its own specification: SpecProducer and SpecConsumer.       *)
(*                                                                         *)
(* One action is one run-to-completion step of the Node.js event loop:     *)
(* the code between two suspension points (await) of a handler, or one     *)
(* event callback.  Broker-side objects are numbered: channel k is the     *)
(* channel createChannel returned on connection k (each attempt creates at *)
(* most one channel on the connection it opened).  0 stands for null.  A   *)
(* number is handed out again once its connection has closed and nothing   *)
(* in the process refers to it any more.                                   *)
(*                                                                         *)
(* amqplib behaviour assumed (the library is not part of the repository):  *)
(*  - a pending createChannel rejects only after its connection has        *)
(*    reported an error or closed; a pending assertQueue rejects only      *)
(*    after its channel has closed;                                        *)
(*  - any operation on a closed channel throws;                            *)
(*  - a closing connection closes its channels and emits 'close';          *)
(*    connection.close() and channel.close() emit the 'close' event of     *)
(*    the object they close;                                               *)
(*  - ChannelModel.connection is never null on a connection object.        *)
(***************************************************************************)
EXTENDS Integers, Sequences, FiniteSets, TLC

\* ------------------------------------------------------------------ bounds
MaxConns == 2          \* broker connections a process has at one time
MaxTokens == 2         \* attempts in flight + retry timers pending at one time
MaxMsgs == 2           \* deliveries being handled at one time

\* --------------------------------------------------------------- constants
RECONNECT_DELAY_MS == 5000          \* routes.ts:7
WORKER_RECONNECT_DELAY_MS == 5000   \* worker.ts:9 (same name there)
QUEUE_NAME == "prompt_tasks_queue"
NULL == 0
Undefined == "<undefined>"

ConnIds == 1..MaxConns
MsgIds == 1..MaxMsgs

VARIABLES
    \* ---- producer (routes.ts)
    rabbitConnection,   \* module variable: 0 or a connection id
    rabbitChannel,      \* module variable: 0 or a channel id
    pConn,              \* broker side: connection id -> "none"|"open"|"erroring"
    pChan,              \* broker side: channel id -> "none"|"open"|"closed"
    pConnecting,        \* connectToRabbitMQ calls suspended in amqp.connect
    pStage,             \* connection id -> where the call that opened it is suspended
    pTimers,            \* pending setTimeout(connectToRabbitMQ, ...) timers
    pDelays,            \* delays ever passed to setTimeout
    routesMounted,      \* initializePromptRoutes has mounted the router
    initConn,           \* connection held by the unsettled first call, if any
    req,                \* the submit call being followed
    \* ---- consumer (worker.ts)
    capability,         \* defaultOpenAiLlmProvider && defaultPromptService
    connection,         \* closure variable of startWorker: 0 or a connection id
    channel,            \* closure variable of startWorker: 0 or a channel id
    cConn,              \* broker side: connection id -> "none"|"open"|"erroring"
    cChan,              \* broker side: channel id -> "none"|"open"|"closed"
    cConnecting,        \* connectAndConsume runs suspended in amqp.connect
    cStage,             \* connection id -> where the run that opened it is suspended
    cCatch,             \* <<what, id>> -> runs suspended in the catch block closing it
    cTimers,            \* pending setTimeout(connectAndConsume, ...) timers
    cDelays,            \* delays ever passed to setTimeout
    subs,               \* channel id -> consume registrations alive on it
    deliv,              \* handler slot -> the delivery being handled in it
    handled,            \* the delivery whose handler finished last
    \* ---- processing capability (service.ts)
    svc                 \* the PromptService instance and the processPrompt call followed

pvars == <<rabbitConnection, rabbitChannel, pConn, pChan, pConnecting, pStage,
           pTimers, pDelays, routesMounted, initConn, req>>
cvars == <<capability, connection, channel, cConn, cChan, cConnecting, cStage,
           cCatch, cTimers, cDelays, subs, deliv, handled>>
svars == <<svc>>
vars == <<pvars, cvars, svars>>

\* ------------------------------------------------------- task message, JSON
Keys == <<"promptText", "requestedModel", "enhance", "promptId">>

Payload(t, m, e, i) ==
    [promptText |-> t, requestedModel |-> m, enhance |-> e, promptId |-> i]

\* request bodies the callers send (req.body after express.json())
Payloads ==
    { Payload(Undefined, Undefined, Undefined, Undefined),
      Payload("", "gpt-4", Undefined, ""),
      Payload("Test prompt", Undefined, Undefined, Undefined),
      Payload(Undefined, Undefined, Undefined, "test_id"),
      Payload("", Undefined, Undefined, "test_id"),
      Payload("Test prompt", "gpt-4", "true", Undefined) }

\* JavaScript !v for the values a field takes here
Falsy(v) == v = Undefined \/ v = ""

\* routes.ts:90  if (!promptText && !promptId)
MissingBodyAndRefUndefinedId(p) == Falsy(p.promptText) /\ p.promptId = Undefined
MissingBodyAndRef(p) == Falsy(p.promptText) /\ Falsy(p.promptId)

\* routes.ts:105-110  the message object built from the destructured fields
Message(p) == Payload(p.promptText, p.requestedModel, p.enhance, p.promptId)

\* JSON.stringify of a flat object: members in insertion order, members whose
\* value is undefined are left out.
JSONStringify(m) ==
    [wellFormed |-> TRUE,
     members |-> LET kv == [j \in 1..Len(Keys) |-> <<Keys[j], m[Keys[j]]>>]
                 IN SelectSeq(kv, LAMBDA x : x[2] # Undefined)]

\* JSON.parse throws on text that is not JSON (worker.ts:85)
ParseThrows(content) == ~content.wellFormed

\* the value of member key of the parsed object; a missing member reads undefined
Member(content, key) ==
    LET at == {j \in 1..Len(content.members) : content.members[j][1] = key}
    IN IF at = {} THEN Undefined
       ELSE content.members[CHOOSE j \in at : \A l \in at : l <= j][2]

\* worker.ts:85  JSON.parse(content) as PromptMessage: the four fields read
JSONParse(content) ==
    Payload(Member(content, "promptText"), Member(content, "requestedModel"),
            Member(content, "enhance"), Member(content, "promptId"))

\* runs of connectAndConsume suspended in the catch block are told apart by
\* what they are closing only
CatchTargets == {"channel", "connection"} \X ConnIds

NoContent == [wellFormed |-> FALSE, members |-> <<>>]
NoDelivery == [pc |-> "none", content |-> NoContent, ch |-> NULL,
               args |-> Payload(Undefined, Undefined, Undefined, Undefined)]
NoneHandled == [content |-> NoContent, settled |-> <<>>, invoked |-> 0, result |-> "none"]

\* ------------------------------------------- processing capability
\* Text is a sequence of pieces; "" is the empty sequence.  A piece is white
\* space or not, which is all that trim() needs.
Text(v) == IF Falsy(v) THEN <<>> ELSE <<v>>
Whitespace == {" ", "\n\n"}

\* service.ts:94  !text || text.trim() === ""
EmptyOrWhitespace(text) == \A j \in 1..Len(text) : text[j] \in Whitespace

\* service.ts:85  the text appended when enhance is set
Enhancement ==
    <<"\n\n", "Provide a detailed and comprehensive response. Ensure clarity and accuracy.">>

\* service.ts:35,84  enhance: boolean = false; if (enhance)
Enhance(e) == e = "true"

\* service.ts:47  requestedModel || 'gpt-3.5-turbo'
DefaultModel(m) == IF Falsy(m) THEN "gpt-3.5-turbo" ELSE m

\* the errors processPrompt throws (service.ts:41,66,72,78,105)
ErrNoProvider == "LlmProvider is not available. Cannot process prompt."
ErrNotFound == "not found in database and no fallback promptText provided."
ErrRetrieve == "Failed to retrieve prompt from database and no fallback promptText provided."
ErrNeither == "Cannot process prompt: Neither promptId nor promptText was provided."
ErrEmpty == "Failed to process prompt and generate completion: Final prompt text is empty or whitespace. Cannot send to LLM."
ErrCompletion == "Failed to process prompt and generate completion: "

\* arguments processPrompt is called with
ServiceArgs ==
    { Payload(t, m, e, i) : t \in {Undefined, "", " ", "Hello AI"},
                            m \in {Undefined, "gpt-4"},
                            e \in {Undefined, "true"},
                            i \in {Undefined, "test_id"} }

\* rows getPromptByName returns (db.ts); NoRow is undefined: no such prompt
NoRow == [found |-> FALSE, prompt_text |-> "", model_name |-> Undefined]
Rows ==
    { NoRow } \cup
    { [found |-> TRUE, prompt_text |-> t, model_name |-> m] :
         t \in {"", "Library text"}, m \in {Undefined, "gpt-4o"} }

IdleSvc == [provider |-> FALSE, pc |-> "idle",
            args |-> Payload(Undefined, Undefined, Undefined, Undefined),
            text |-> <<>>, composed |-> <<>>, model |-> Undefined, row |-> "none",
            llmCalls |-> 0, prompt |-> <<>>, llmModel |-> Undefined,
            outcome |-> "none", error |-> ""]

\* the processing capability is not followed in the runs of the relay
ServiceOff == svc = IdleSvc

\* processPrompt throws
Thrown(c, err) == [c EXCEPT !.pc = "done", !.outcome = "error", !.error = err]

\* service.ts:84-99  from `if (enhance)` to the call of generateCompletion
\* (composed keeps the text as it was before the enhancement)
Compose(c) ==
    LET text == IF Enhance(c.args.enhance) THEN c.text \o Enhancement ELSE c.text
    IN IF EmptyOrWhitespace(text)
       THEN Thrown([c EXCEPT !.composed = c.text, !.text = text], ErrEmpty)
       ELSE [c EXCEPT !.composed = c.text, !.text = text, !.pc = "llm",
                      !.llmCalls = @ + 1, !.prompt = text, !.llmModel = c.model]

\* service.ts:32-52,75-99  processPrompt is called: up to the await of
\* getPromptByName, or of generateCompletion, or to a throw
SCall(a) ==
    /\ svc.pc \in {"idle", "done"}
    /\ LET c == [IdleSvc EXCEPT !.provider = svc.provider, !.args = a,
                                !.text = Text(a.promptText),
                                !.model = DefaultModel(a.requestedModel)]
       IN svc' = IF ~svc.provider THEN Thrown(c, ErrNoProvider)
                 ELSE IF ~Falsy(a.promptId) THEN [c EXCEPT !.pc = "db"]
                 ELSE IF Falsy(a.promptText) THEN Thrown(c, ErrNeither)
                 ELSE Compose(c)
    /\ UNCHANGED <<pvars, cvars>>

\* service.ts:69-74  catch (dbError): whatever was thrown inside the try
\* block of the lookup, the throw of service.ts:66 included
DbCatch(c, thrown) ==
    IF Falsy(c.args.promptText) THEN Thrown(c, ErrRetrieve) ELSE Compose(c)

\* service.ts:52-68  getPromptByName resolves with a row or with undefined
SDbResolve(row) ==
    /\ svc.pc = "db"
    /\ LET c == [svc EXCEPT !.row = IF row.found THEN "found" ELSE "notfound"]
       IN svc' =
            IF row.found
            THEN Compose([c EXCEPT
                   !.text = Text(row.prompt_text)
                            \o (IF Falsy(c.args.promptText) THEN <<>>
                                ELSE <<" ">> \o Text(c.args.promptText)),
                   !.model = IF ~Falsy(row.model_name) /\ Falsy(c.args.requestedModel)
                             THEN row.model_name ELSE @])
            ELSE IF Falsy(c.args.promptText) THEN DbCatch(c, ErrNotFound)
            ELSE Compose(c)
    /\ UNCHANGED <<pvars, cvars>>

\* service.ts:52,69-74  getPromptByName rejects
SDbReject ==
    /\ svc.pc = "db"
    /\ svc' = DbCatch([svc EXCEPT !.row = "failed"], "database error")
    /\ UNCHANGED <<pvars, cvars>>

\* service.ts:99-101  generateCompletion resolves
SLlmResolve ==
    /\ svc.pc = "llm"
    /\ svc' = [svc EXCEPT !.pc = "done", !.outcome = "completion"]
    /\ UNCHANGED <<pvars, cvars>>

\* service.ts:99,102-108  generateCompletion rejects
SLlmReject ==
    /\ svc.pc = "llm"
    /\ svc' = Thrown(svc, ErrCompletion)
    /\ UNCHANGED <<pvars, cvars>>

NextService ==
    \/ \E a \in ServiceArgs : SCall(a)
    \/ \E row \in Rows : SDbResolve(row)
    \/ SDbReject
    \/ SLlmResolve
    \/ SLlmReject

\* ------------------------------------------------------------- producer
IdleReq == [pc |-> "idle", payload |-> Payload(Undefined, Undefined, Undefined, Undefined),
            ch |-> NULL, status |-> 0, error |-> "", pubs |-> <<>>,
            asserts |-> 0, started |-> 0, hadConn |-> FALSE]

\* connectToRabbitMQ calls that have not settled
PInFlight ==
    pConnecting + Cardinality({k \in ConnIds : pStage[k] # "none"})

\* what keeps retrying: calls in flight and timers pending
PTokens == PInFlight + pTimers

\* amqplib emits 'error' and then 'close' of a failing connection in one turn
\* of the event loop: nothing else runs between the two handlers
PQuiet == \A k \in ConnIds : pConn[k] # "erroring"

\* a connection number nothing refers to
PFree(k) ==
    /\ pConn[k] = "none"
    /\ pStage[k] = "none"
    /\ rabbitConnection # k
    /\ rabbitChannel # k
    /\ req.ch # k

\* routes.ts:73-74  initializePromptRoutes awaits the first attempt
InitProducer ==
    /\ rabbitConnection = NULL
    /\ rabbitChannel = NULL
    /\ pConn = [k \in ConnIds |-> "none"]
    /\ pChan = [k \in ConnIds |-> "none"]
    /\ pConnecting = 1
    /\ pStage = [k \in ConnIds |-> "none"]
    /\ pTimers = 0
    /\ pDelays = {}
    /\ routesMounted = FALSE
    /\ initConn = NULL
    /\ req = IdleReq

\* routes.ts:33-52  amqp.connect resolves: handle cached, handlers registered,
\* createChannel called.  Before the router is mounted and before the first
\* call has a connection, the first call is the only one in flight.
PConnectResolve ==
    /\ PQuiet
    /\ pConnecting > 0
    /\ \E k \in ConnIds :
          /\ PFree(k)
          /\ \A l \in ConnIds : PFree(l) => k <= l
          /\ rabbitConnection' = k
          /\ pConn' = [pConn EXCEPT ![k] = "open"]
          /\ pChan' = [pChan EXCEPT ![k] = "none"]
          /\ pStage' = [pStage EXCEPT ![k] = "createChannel"]
          /\ initConn' = (IF ~routesMounted /\ initConn = NULL THEN k ELSE initConn)
    /\ pConnecting' = pConnecting - 1
    /\ UNCHANGED <<svars, cvars, rabbitChannel, pTimers, pDelays, routesMounted, req>>

\* routes.ts:59-65  the catch block
PCatch ==
    /\ rabbitChannel' = NULL
    /\ rabbitConnection' = NULL
    /\ pTimers' = pTimers + 1
    /\ pDelays' = pDelays \cup {RECONNECT_DELAY_MS}

\* routes.ts:74,132  the router is mounted when the awaited first call settles
PSettled(k) ==
    /\ pStage' = [pStage EXCEPT ![k] = "none"]
    /\ routesMounted' = (routesMounted \/ initConn = k)
    /\ initConn' = (IF initConn = k THEN NULL ELSE initConn)

\* routes.ts:33,59  amqp.connect rejects
PConnectReject ==
    /\ PQuiet
    /\ pConnecting > 0
    /\ PCatch
    /\ pConnecting' = pConnecting - 1
    /\ routesMounted' = (routesMounted \/ initConn = NULL)
    /\ UNCHANGED <<svars, cvars, pConn, pChan, pStage, initConn, req>>

\* routes.ts:56,114  rabbitChannel.assertQueue(QUEUE_NAME, { durable: true })
PAssertQueueOptions == [queue |-> QUEUE_NAME, durable |-> TRUE]

\* routes.ts:52-56  createChannel resolves: channel cached, assertQueue called
PCreateChannelResolve(k) ==
    /\ PQuiet
    /\ pStage[k] = "createChannel"
    /\ pConn[k] = "open"
    /\ pChan' = [pChan EXCEPT ![k] = "open"]
    /\ rabbitChannel' = k
    /\ pStage' = [pStage EXCEPT ![k] = "assertQueue"]
    /\ UNCHANGED <<svars, cvars, rabbitConnection, pConn, pConnecting, pTimers, pDelays,
                   routesMounted, initConn, req>>

\* routes.ts:52,59  createChannel rejects
PCreateChannelReject(k) ==
    /\ PQuiet
    /\ pStage[k] = "createChannel"
    /\ pConn[k] # "open"
    /\ PCatch
    /\ PSettled(k)
    /\ UNCHANGED <<svars, cvars, pConn, pChan, pConnecting, req>>

\* routes.ts:56-58  assertQueue resolves: the call has settled
PAssertQueueResolve(k) ==
    /\ PQuiet
    /\ pStage[k] = "assertQueue"
    /\ pChan[k] = "open"
    /\ PSettled(k)
    /\ UNCHANGED <<svars, cvars, rabbitConnection, rabbitChannel, pConn, pChan, pConnecting,
                   pTimers, pDelays, req>>

\* routes.ts:56,59  assertQueue rejects
PAssertQueueReject(k) ==
    /\ PQuiet
    /\ pStage[k] = "assertQueue"
    /\ pChan[k] # "open"
    /\ PCatch
    /\ PSettled(k)
    /\ UNCHANGED <<svars, cvars, pConn, pChan, pConnecting, req>>

\* routes.ts:36-41  'error' event of connection k
PConnErrorSchedulesRetry(k) ==
    /\ PQuiet
    /\ pConn[k] = "open"
    /\ PTokens < MaxTokens
    /\ pConn' = [pConn EXCEPT ![k] = "erroring"]
    /\ rabbitChannel' = NULL
    /\ rabbitConnection' = NULL
    /\ pTimers' = pTimers + 1
    /\ pDelays' = pDelays \cup {RECONNECT_DELAY_MS}
    /\ UNCHANGED <<svars, cvars, pChan, pConnecting, pStage, routesMounted, initConn, req>>
PConnError(k) ==
    /\ PQuiet
    /\ pConn[k] = "open"
    /\ PTokens < MaxTokens
    /\ pConn' = [pConn EXCEPT ![k] = "erroring"]
    /\ rabbitChannel' = NULL
    /\ rabbitConnection' = NULL
    /\ UNCHANGED <<svars, cvars, pChan, pConnecting, pStage, pTimers, pDelays,
                   routesMounted,
                   initConn, req>>

\* routes.ts:43-50  'close' event of connection k; its channel goes with it
PConnClose(k) ==
    /\ \/ pConn[k] = "erroring"
       \/ pConn[k] = "open" /\ PTokens < MaxTokens
    /\ pConn' = [pConn EXCEPT ![k] = "none"]
    /\ pChan' = [pChan EXCEPT ![k] = "none"]
    /\ rabbitChannel' = NULL
    /\ rabbitConnection' = NULL
    /\ pTimers' = pTimers + 1
    /\ pDelays' = pDelays \cup {RECONNECT_DELAY_MS}
    /\ UNCHANGED <<svars, cvars, pConnecting, pStage, routesMounted, initConn, req>>

\* the broker closes channel k alone; routes.ts registers no channel handler
PChanClose(k) ==
    /\ PQuiet
    /\ pChan[k] = "open"
    /\ pConn[k] = "open"
    /\ pChan' = [pChan EXCEPT ![k] = "closed"]
    /\ UNCHANGED <<svars, cvars, rabbitConnection, rabbitChannel, pConn, pConnecting,
                   pStage,
                   pTimers, pDelays, routesMounted, initConn, req>>

\* routes.ts:49,64  a retry timer fires and calls connectToRabbitMQ
PTimerFireDropped ==
    /\ PQuiet
    /\ pTimers > 0
    /\ pTimers' = pTimers - 1
    /\ UNCHANGED <<svars, cvars, rabbitConnection, rabbitChannel, pConn, pChan, pConnecting,
                   pStage, pDelays, routesMounted, initConn, req>>
PTimerFire ==
    /\ PQuiet
    /\ pTimers > 0
    /\ pTimers' = pTimers - 1
    /\ pConnecting' = pConnecting + 1
    /\ UNCHANGED <<svars, cvars, rabbitConnection, rabbitChannel, pConn, pChan, pStage,
                   pDelays,
                   routesMounted, initConn, req>>

\* a response is sent: res.status(code).json(...)
Responded(r, code, err) ==
    [r EXCEPT !.pc = "done", !.status = code, !.error = err, !.ch = NULL]

NewReq(p) == [IdleReq EXCEPT !.pc = "called", !.payload = p,
                             !.hadConn = (rabbitConnection # NULL)]

\* routes.ts:86-93  validation fails
SubmitRejected(p) ==
    /\ MissingBodyAndRef(p)
    /\ req' = Responded(NewReq(p), 400, "missing")
    /\ UNCHANGED <<svars, cvars, rabbitConnection, rabbitChannel, pConn, pChan, pConnecting,
                   pStage, pTimers, pDelays, routesMounted, initConn>>

\* routes.ts:95  the availability check
ChannelUnavailableNoConnCheck == rabbitChannel = NULL
ChannelUnavailable == rabbitChannel = NULL \/ rabbitConnection = NULL

\* routes.ts:99  the guard of the reconnect nudge
NudgeGuardNever == FALSE
NudgeGuard == rabbitConnection = NULL

\* routes.ts:95-103  no usable channel: 503 and the reconnect nudge
SubmitUnavailable(p) ==
    /\ ~MissingBodyAndRef(p)
    /\ ChannelUnavailable
    /\ IF NudgeGuard
       THEN /\ PTokens < MaxTokens
            /\ pConnecting' = pConnecting + 1
            /\ req' = Responded([NewReq(p) EXCEPT !.started = 1], 503, "unavailable")
       ELSE /\ pConnecting' = pConnecting
            /\ req' = Responded(NewReq(p), 503, "unavailable")
    /\ UNCHANGED <<svars, cvars, rabbitConnection, rabbitChannel, pConn, pChan, pStage,
                   pTimers, pDelays, routesMounted, initConn>>

\* routes.ts:105-114  the channel check passed: assertQueue is called on the
\* cached channel; on a closed channel the call throws (routes.ts:125-128)
SubmitAssertPublishesFirst(p) ==
    /\ ~MissingBodyAndRef(p)
    /\ ~ChannelUnavailable
    /\ req' = IF pChan[rabbitChannel] = "open"
              THEN [NewReq(p) EXCEPT !.pc = "assertQueue", !.ch = rabbitChannel,
                                     !.asserts = 1,
                                     !.pubs = <<[queue |-> QUEUE_NAME,
                                                 content |-> JSONStringify(Message(p)),
                                                 persistent |-> TRUE,
                                                 returned |-> TRUE]>>]
              ELSE Responded([NewReq(p) EXCEPT !.asserts = 1], 500, "internal")
    /\ UNCHANGED <<svars, cvars, rabbitConnection, rabbitChannel, pConn, pChan, pConnecting,
                   pStage, pTimers, pDelays, routesMounted, initConn>>
SubmitAssert(p) ==
    /\ ~MissingBodyAndRef(p)
    /\ ~ChannelUnavailable
    /\ req' = IF pChan[rabbitChannel] = "open"
              THEN [NewReq(p) EXCEPT !.pc = "assertQueue", !.ch = rabbitChannel,
                                     !.asserts = 1]
              ELSE Responded([NewReq(p) EXCEPT !.asserts = 1], 500, "internal")
    /\ UNCHANGED <<svars, cvars, rabbitConnection, rabbitChannel, pConn, pChan, pConnecting,
                   pStage, pTimers, pDelays, routesMounted, initConn>>

\* routes.ts:85  POST /submit arrives
SubmitCall(p) ==
    /\ PQuiet
    /\ routesMounted
    /\ req.pc \in {"idle", "done"}
    /\ \/ SubmitRejected(p)
       \/ SubmitUnavailable(p)
       \/ SubmitAssert(p)

\* routes.ts:115  the publish call
PublishNonPersistent(m, success) ==
    [queue |-> QUEUE_NAME, content |-> JSONStringify(m), persistent |-> FALSE,
     returned |-> success]
Publish(m, success) ==
    [queue |-> QUEUE_NAME, content |-> JSONStringify(m), persistent |-> TRUE,
     returned |-> success]

\* routes.ts:117-124  the status chosen from sendToQueue's return value
StatusOfPublishOk(success) == IF success THEN 200 ELSE 503
StatusOfPublishNeverOverloaded(success) == 202
StatusOfPublish(success) == IF success THEN 202 ELSE 503

\* routes.ts:114-124  assertQueue resolved; sendToQueue on the cached channel,
\* which throws when the handle is null or the channel closed (routes.ts:125)
SubmitAssertResolve(success) ==
    /\ PQuiet
    /\ req.pc = "assertQueue"
    /\ pChan[req.ch] = "open"
    /\ req' = IF rabbitChannel = NULL \/ pChan[rabbitChannel] # "open"
              THEN Responded(req, 500, "internal")
              ELSE Responded([req EXCEPT !.pubs = Append(@, Publish(Message(req.payload),
                                                                   success))],
                             StatusOfPublish(success),
                             IF success THEN "" ELSE "overloaded")
    /\ UNCHANGED <<svars, cvars, rabbitConnection, rabbitChannel, pConn, pChan, pConnecting,
                   pStage, pTimers, pDelays, routesMounted, initConn>>

\* routes.ts:114,125-128  assertQueue rejected
SubmitAssertRejectReconnects ==
    /\ PQuiet
    /\ req.pc = "assertQueue"
    /\ pChan[req.ch] # "open"
    /\ PTokens < MaxTokens
    /\ req' = Responded(req, 500, "internal")
    /\ pConnecting' = pConnecting + 1
    /\ UNCHANGED <<svars, cvars, rabbitConnection, rabbitChannel, pConn, pChan,
                   pStage, pTimers, pDelays, routesMounted, initConn>>
SubmitAssertReject ==
    /\ PQuiet
    /\ req.pc = "assertQueue"
    /\ pChan[req.ch] # "open"
    /\ req' = Responded(req, 500, "internal")
    /\ UNCHANGED <<svars, cvars, rabbitConnection, rabbitChannel, pConn, pChan, pConnecting,
                   pStage, pTimers, pDelays, routesMounted, initConn>>

NextProducer ==
    \/ PConnectResolve
    \/ PConnectReject
    \/ \E k \in ConnIds : PCreateChannelResolve(k)
    \/ \E k \in ConnIds : PCreateChannelReject(k)
    \/ \E k \in ConnIds : PAssertQueueResolve(k)
    \/ \E k \in ConnIds : PAssertQueueReject(k)
    \/ \E k \in ConnIds : PConnError(k)
    \/ \E k \in ConnIds : PConnClose(k)
    \/ \E k \in ConnIds : PChanClose(k)
    \/ PTimerFire
    \/ \E p \in Payloads : SubmitCall(p)
    \/ \E success \in BOOLEAN : SubmitAssertResolve(success)
    \/ SubmitAssertReject

\* the worker is another process: it is not running in the producer's runs
ConsumerOff ==
    /\ capability = FALSE
    /\ connection = NULL
    /\ channel = NULL
    /\ cConn = [k \in ConnIds |-> "none"]
    /\ cChan = [k \in ConnIds |-> "none"]
    /\ cConnecting = 0
    /\ cStage = [k \in ConnIds |-> "none"]
    /\ cCatch = [t \in CatchTargets |-> 0]
    /\ cTimers = 0
    /\ cDelays = {}
    /\ subs = [k \in ConnIds |-> 0]
    /\ deliv = [m \in MsgIds |-> NoDelivery]
    /\ handled = NoneHandled

ProducerInit == InitProducer /\ ConsumerOff /\ ServiceOff

SpecProducer == ProducerInit /\ [][NextProducer]_vars

\* ------------------------------------------------------------- consumer
\* message bodies the broker delivers (msg.content)
Contents ==
    { NoContent,
      JSONStringify(Payload(Undefined, Undefined, Undefined, Undefined)),
      JSONStringify(Payload("Hello AI", Undefined, Undefined, Undefined)) }

RECURSIVE SumOver(_, _)
SumOver(f, S) ==
    IF S = {} THEN 0
    ELSE LET t == CHOOSE x \in S : TRUE IN f[t] + SumOver(f, S \ {t})

\* connectAndConsume runs that have not settled
CInFlight ==
    cConnecting + Cardinality({k \in ConnIds : cStage[k] # "none"})
    + SumOver(cCatch, CatchTargets)

\* what keeps retrying: runs in flight and timers pending
CTokens == CInFlight + cTimers

\* 'error' and 'close' of a failing connection come in one turn, as above
CQuiet == \A k \in ConnIds : cConn[k] # "erroring"

\* a connection number nothing refers to
CFree(k) ==
    /\ cConn[k] = "none"
    /\ cStage[k] = "none"
    /\ connection # k
    /\ channel # k
    /\ cCatch[<<"channel", k>>] = 0
    /\ cCatch[<<"connection", k>>] = 0
    /\ \A m \in MsgIds : deliv[m].ch # k

\* worker.ts:27-35,134,138  connectAndConsume runs that startup begins: one
\* when the provider and the service are there, none otherwise
FirstRunsUnguarded(cap) == 1
FirstRuns(cap) == IF cap THEN 1 ELSE 0

\* worker.ts:24-35,134,138  the module starts the worker when the capability
\* is there; startWorker awaits the first connectAndConsume run
InitConsumer ==
    /\ capability \in BOOLEAN
    /\ connection = NULL
    /\ channel = NULL
    /\ cConn = [k \in ConnIds |-> "none"]
    /\ cChan = [k \in ConnIds |-> "none"]
    /\ cConnecting = FirstRuns(capability)
    /\ cStage = [k \in ConnIds |-> "none"]
    /\ cCatch = [t \in CatchTargets |-> 0]
    /\ cTimers = 0
    /\ cDelays = {}
    /\ subs = [k \in ConnIds |-> 0]
    /\ deliv = [m \in MsgIds |-> NoDelivery]
    /\ handled = NoneHandled

\* worker.ts:44-59  amqp.connect resolves: handle stored, handlers registered,
\* createChannel called
CConnectResolve ==
    /\ CQuiet
    /\ cConnecting > 0
    /\ \E k \in ConnIds :
          /\ CFree(k)
          /\ \A l \in ConnIds : CFree(l) => k <= l
          /\ connection' = k
          /\ cConn' = [cConn EXCEPT ![k] = "open"]
          /\ cStage' = [cStage EXCEPT ![k] = "createChannel"]
    /\ cConnecting' = cConnecting - 1
    /\ UNCHANGED <<svars, pvars, capability, channel, cChan, cCatch, cTimers, cDelays, subs,
                   deliv, handled>>

\* worker.ts:130  setTimeout(connectAndConsume, RECONNECT_DELAY_MS)
RetryTimers(n) == n + 1

\* worker.ts:126-130  the catch block from `if (connection)` on, with the
\* channel variable already set to ch: an open connection is closed and the
\* run suspends in connection.close(); otherwise the retry is scheduled
CCatchConnection(ch, catching) ==
    /\ channel' = ch
    /\ IF connection # NULL /\ cConn[connection] = "open"
       THEN /\ cCatch' = [catching EXCEPT ![<<"connection", connection>>] = @ + 1]
            /\ UNCHANGED <<connection, cTimers, cDelays>>
       ELSE /\ cCatch' = catching
            /\ connection' = NULL
            /\ cTimers' = RetryTimers(cTimers)
            /\ cDelays' = cDelays \cup {WORKER_RECONNECT_DELAY_MS}

\* worker.ts:120-130  the catch block from its start: an open channel is
\* closed and the run suspends in channel.close()
CCatch ==
    IF channel # NULL /\ cChan[channel] = "open"
    THEN /\ cCatch' = [cCatch EXCEPT ![<<"channel", channel>>] = @ + 1]
         /\ UNCHANGED <<connection, channel, cTimers, cDelays>>
    ELSE CCatchConnection(NULL, cCatch)

\* worker.ts:44,120  amqp.connect rejects
CConnectReject ==
    /\ CQuiet
    /\ cConnecting > 0
    /\ cConnecting' = cConnecting - 1
    /\ CCatch
    /\ UNCHANGED <<svars, pvars, capability, cConn, cChan, cStage, subs, deliv, handled>>

\* worker.ts:74  channel.assertQueue(QUEUE_NAME, { durable: true })
CAssertQueueOptions == [queue |-> QUEUE_NAME, durable |-> TRUE]

\* worker.ts:79,118  channel.consume(QUEUE_NAME, handler, { noAck: false })
ConsumeOptions == [queue |-> QUEUE_NAME, noAck |-> FALSE]

\* worker.ts:59-74  createChannel resolves: channel stored, handlers
\* registered, assertQueue called
CCreateChannelResolveSubscribes(k) ==
    /\ CQuiet
    /\ cStage[k] = "createChannel"
    /\ cConn[k] = "open"
    /\ cChan' = [cChan EXCEPT ![k] = "open"]
    /\ channel' = k
    /\ subs' = [subs EXCEPT ![k] = @ + 1]
    /\ cStage' = [cStage EXCEPT ![k] = "assertQueue"]
    /\ UNCHANGED <<svars, pvars, capability, connection, cConn, cConnecting, cCatch,
                   cTimers, cDelays, deliv, handled>>
CCreateChannelResolve(k) ==
    /\ CQuiet
    /\ cStage[k] = "createChannel"
    /\ cConn[k] = "open"
    /\ cChan' = [cChan EXCEPT ![k] = "open"]
    /\ channel' = k
    /\ cStage' = [cStage EXCEPT ![k] = "assertQueue"]
    /\ UNCHANGED <<svars, pvars, capability, connection, cConn, cConnecting, cCatch,
                   cTimers, cDelays, subs, deliv, handled>>

\* worker.ts:59,120  createChannel rejects
CCreateChannelReject(k) ==
    /\ CQuiet
    /\ cStage[k] = "createChannel"
    /\ cConn[k] # "open"
    /\ cStage' = [cStage EXCEPT ![k] = "none"]
    /\ CCatch
    /\ UNCHANGED <<svars, pvars, capability, cConn, cChan, cConnecting, subs, deliv,
                   handled>>

\* worker.ts:74-79,118  assertQueue resolves and consume is called on the
\* channel variable; the call throws when the variable is null (worker.ts:120)
CAssertQueueResolve(k) ==
    /\ CQuiet
    /\ cStage[k] = "assertQueue"
    /\ cChan[k] = "open"
    /\ cStage' = [cStage EXCEPT ![k] = "none"]
    /\ IF channel # NULL /\ cChan[channel] = "open"
       THEN /\ subs' = [subs EXCEPT ![channel] = @ + 1]
            /\ UNCHANGED <<connection, channel, cCatch, cTimers, cDelays>>
       ELSE /\ subs' = subs
            /\ CCatch
    /\ UNCHANGED <<svars, pvars, capability, cConn, cChan, cConnecting, deliv, handled>>

\* worker.ts:74,120  assertQueue rejects
CAssertQueueReject(k) ==
    /\ CQuiet
    /\ cStage[k] = "assertQueue"
    /\ cChan[k] # "open"
    /\ cStage' = [cStage EXCEPT ![k] = "none"]
    /\ CCatch
    /\ UNCHANGED <<svars, pvars, capability, cConn, cChan, cConnecting, subs, deliv,
                   handled>>

\* worker.ts:123-130  channel.close() of the catch block settles: the channel
\* has closed (its 'close' handler, worker.ts:67-72, cleared the variable),
\* `channel = null`, then the connection part
CCatchChannelClosed(k) ==
    /\ CQuiet
    /\ cCatch[<<"channel", k>>] > 0
    /\ cChan' = [cChan EXCEPT ![k] = IF @ = "open" THEN "closed" ELSE @]
    /\ subs' = [subs EXCEPT ![k] = 0]
    /\ CCatchConnection(NULL, [cCatch EXCEPT ![<<"channel", k>>] = @ - 1])
    /\ UNCHANGED <<svars, pvars, capability, cConn, cConnecting, cStage, deliv, handled>>

\* worker.ts:52-57  the 'close' handler of a connection
CloseHandlerTimersNone(n) == n
CloseHandlerTimers(n) == n + 1

\* worker.ts:127-130  connection.close() of the catch block settles: if the
\* connection was still open it has closed and emitted 'close' (worker.ts:52-57
\* schedules a retry); `connection = null`, then the catch block's own retry
CCatchConnectionClosed(k) ==
    /\ CQuiet
    /\ cCatch[<<"connection", k>>] > 0
    /\ cConn[k] = "open" => CTokens < MaxTokens
    /\ cCatch' = [cCatch EXCEPT ![<<"connection", k>>] = @ - 1]
    /\ cConn' = [cConn EXCEPT ![k] = "none"]
    /\ cChan' = [cChan EXCEPT ![k] = "none"]
    /\ subs' = [subs EXCEPT ![k] = 0]
    /\ connection' = NULL
    /\ channel' = (IF cConn[k] = "open" THEN NULL ELSE channel)
    /\ cTimers' = RetryTimers(IF cConn[k] = "open" THEN CloseHandlerTimers(cTimers)
                                                     ELSE cTimers)
    /\ cDelays' = cDelays \cup {WORKER_RECONNECT_DELAY_MS}
    /\ UNCHANGED <<svars, pvars, capability, cConnecting, cStage, deliv, handled>>

\* worker.ts:47-50  'error' event of connection k: logged only
CConnError(k) ==
    /\ CQuiet
    /\ cConn[k] = "open"
    /\ CTokens < MaxTokens
    /\ cConn' = [cConn EXCEPT ![k] = "erroring"]
    /\ UNCHANGED <<svars, pvars, capability, connection, channel, cChan, cConnecting,
                   cStage, cCatch, cTimers, cDelays, subs, deliv, handled>>

\* worker.ts:52-57 (and 67-72 for its channel)  connection k closes
CConnCloseBacksOff(k) ==
    /\ \/ cConn[k] = "erroring"
       \/ cConn[k] = "open" /\ CTokens < MaxTokens
    /\ cConn' = [cConn EXCEPT ![k] = "none"]
    /\ cChan' = [cChan EXCEPT ![k] = "none"]
    /\ subs' = [subs EXCEPT ![k] = 0]
    /\ connection' = NULL
    /\ channel' = NULL
    /\ cTimers' = CloseHandlerTimers(cTimers)
    /\ cDelays' = cDelays \cup {WORKER_RECONNECT_DELAY_MS * (1 + Cardinality(cDelays))}
    /\ UNCHANGED <<svars, pvars, capability, cConnecting, cStage, cCatch, deliv, handled>>
CConnClose(k) ==
    /\ \/ cConn[k] = "erroring"
       \/ cConn[k] = "open" /\ CTokens < MaxTokens
    /\ cConn' = [cConn EXCEPT ![k] = "none"]
    /\ cChan' = [cChan EXCEPT ![k] = "none"]
    /\ subs' = [subs EXCEPT ![k] = 0]
    /\ connection' = NULL
    /\ channel' = NULL
    /\ cTimers' = CloseHandlerTimers(cTimers)
    /\ cDelays' = cDelays \cup {WORKER_RECONNECT_DELAY_MS}
    /\ UNCHANGED <<svars, pvars, capability, cConnecting, cStage, cCatch, deliv, handled>>

\* worker.ts:67-72  the broker closes channel k alone: 'close' handler
CChanCloseKeepsVariable(k) ==
    /\ CQuiet
    /\ cChan[k] = "open"
    /\ cConn[k] = "open"
    /\ cChan' = [cChan EXCEPT ![k] = "closed"]
    /\ subs' = [subs EXCEPT ![k] = 0]
    /\ UNCHANGED <<svars, pvars, capability, connection, channel, cConn, cConnecting,
                   cStage,
                   cCatch, cTimers, cDelays, deliv, handled>>
CChanClose(k) ==
    /\ CQuiet
    /\ cChan[k] = "open"
    /\ cConn[k] = "open"
    /\ cChan' = [cChan EXCEPT ![k] = "closed"]
    /\ subs' = [subs EXCEPT ![k] = 0]
    /\ channel' = NULL
    /\ UNCHANGED <<svars, pvars, capability, connection, cConn, cConnecting, cStage,
                   cCatch, cTimers, cDelays, deliv, handled>>

\* worker.ts:56,130  a retry timer fires and calls connectAndConsume
CTimerFire ==
    /\ CQuiet
    /\ cTimers > 0
    /\ cTimers' = cTimers - 1
    /\ cConnecting' = cConnecting + 1
    /\ UNCHANGED <<svars, pvars, capability, connection, channel, cConn, cChan, cStage,
                   cCatch, cDelays, subs, deliv, handled>>

\* worker.ts:89,101,110  channel?.ack(msg) / channel?.nack(msg, false, false):
\* one call, sent on whatever channel the variable holds, skipped when it is
\* null; `same` tells whether that is the channel the message came on
Settlement(d, op, requeue) ==
    IF channel = NULL THEN <<>>
    ELSE <<[op |-> op, requeue |-> requeue, same |-> (channel = d.ch)]>>

\* worker.ts:82-112  a settlement call made inside the try block (the nack of
\* worker.ts:89, the ack of worker.ts:101): on a closed channel the call
\* throws into the catch block, which calls nack (worker.ts:110)
SettlementInTry(d, op, requeue) ==
    IF channel = NULL THEN <<>>
    ELSE IF cChan[channel] = "open" THEN Settlement(d, op, requeue)
    ELSE Settlement(d, op, requeue) \o Settlement(d, "nack", FALSE)

\* worker.ts:87  if (!messagePayload.promptText && !messagePayload.promptId)
InvalidMessageBodyOnly(p) == Falsy(p.promptText)
InvalidMessage(p) == Falsy(p.promptText) /\ Falsy(p.promptId)

\* worker.ts:94-99  the arguments of the processPrompt call
DispatchArgsSwapped(p) == Payload(p.promptText, p.enhance, p.requestedModel, p.promptId)
DispatchArgs(p) == Payload(p.promptText, p.requestedModel, p.enhance, p.promptId)

\* the handler of delivery d has finished
Handled(d, settled, invoked, result) ==
    [content |-> d.content, settled |-> settled, invoked |-> invoked, result |-> result]

\* worker.ts:79-99  a message arrives on subscribed channel k: the handler
\* runs up to the await of processPrompt (worker.ts:94), or to its end when
\* the body does not parse (worker.ts:103-111) or is invalid (worker.ts:87-91)
Deliver(m, content, k) ==
    /\ CQuiet
    /\ deliv[m].pc = "none"
    /\ \A l \in MsgIds : l < m => deliv[l].pc # "none"
    /\ cChan[k] = "open"
    /\ subs[k] > 0
    /\ LET d == [pc |-> "processing", content |-> content, ch |-> k,
                 args |-> DispatchArgs(JSONParse(content))] IN
       IF ParseThrows(content)
       THEN /\ handled' = Handled(d, Settlement(d, "nack", FALSE), 0, "undecodable")
            /\ deliv' = deliv
       ELSE IF InvalidMessage(JSONParse(content))
       THEN /\ handled' = Handled(d, SettlementInTry(d, "nack", FALSE), 0, "invalid")
            /\ deliv' = deliv
       ELSE /\ handled' = handled
            /\ deliv' = [deliv EXCEPT ![m] = d]
    /\ UNCHANGED <<svars, pvars, capability, connection, channel, cConn, cChan,
                   cConnecting, cStage, cCatch, cTimers, cDelays, subs>>

\* worker.ts:100-102  processPrompt resolves
ProcessResolve(m) ==
    /\ CQuiet
    /\ deliv[m].pc = "processing"
    /\ handled' = Handled(deliv[m], SettlementInTry(deliv[m], "ack", FALSE), 1, "resolved")
    /\ deliv' = [deliv EXCEPT ![m] = NoDelivery]
    /\ UNCHANGED <<svars, pvars, capability, connection, channel, cConn, cChan,
                   cConnecting, cStage, cCatch, cTimers, cDelays, subs>>

\* worker.ts:103-111  processPrompt rejects
ProcessReject(m) ==
    /\ CQuiet
    /\ deliv[m].pc = "processing"
    /\ handled' = Handled(deliv[m], Settlement(deliv[m], "nack", FALSE), 1, "rejected")
    /\ deliv' = [deliv EXCEPT ![m] = NoDelivery]
    /\ UNCHANGED <<svars, pvars, capability, connection, channel, cConn, cChan,
                   cConnecting, cStage, cCatch, cTimers, cDelays, subs>>

\* worker.ts:113-117  the broker cancels a consumer on channel k: the
\* handler is called with null and only logs
DeliverNullClearsChannel(k) ==
    /\ CQuiet
    /\ cChan[k] = "open"
    /\ subs[k] > 0
    /\ subs' = [subs EXCEPT ![k] = @ - 1]
    /\ channel' = NULL
    /\ UNCHANGED <<svars, pvars, capability, connection, cConn, cChan,
                   cConnecting, cStage, cCatch, cTimers, cDelays, deliv, handled>>
DeliverNull(k) ==
    /\ CQuiet
    /\ cChan[k] = "open"
    /\ subs[k] > 0
    /\ subs' = [subs EXCEPT ![k] = @ - 1]
    /\ UNCHANGED <<svars, pvars, capability, connection, channel, cConn, cChan,
                   cConnecting, cStage, cCatch, cTimers, cDelays, deliv, handled>>

NextConsumer ==
    \/ CConnectResolve
    \/ CConnectReject
    \/ \E k \in ConnIds : CCreateChannelResolve(k)
    \/ \E k \in ConnIds : CCreateChannelReject(k)
    \/ \E k \in ConnIds : CAssertQueueResolve(k)
    \/ \E k \in ConnIds : CAssertQueueReject(k)
    \/ \E k \in ConnIds : CCatchChannelClosed(k)
    \/ \E k \in ConnIds : CCatchConnectionClosed(k)
    \/ \E k \in ConnIds : CConnError(k)
    \/ \E k \in ConnIds : CConnClose(k)
    \/ \E k \in ConnIds : CChanClose(k)
    \/ CTimerFire
    \/ \E m \in MsgIds, c \in Contents, k \in ConnIds : Deliver(m, c, k)
    \/ \E m \in MsgIds : ProcessResolve(m)
    \/ \E m \in MsgIds : ProcessReject(m)
    \/ \E k \in ConnIds : DeliverNull(k)

\* the API server is another process: it is not running in the worker's runs
ProducerOff ==
    /\ rabbitConnection = NULL
    /\ rabbitChannel = NULL
    /\ pConn = [k \in ConnIds |-> "none"]
    /\ pChan = [k \in ConnIds |-> "none"]
    /\ pConnecting = 0
    /\ pStage = [k \in ConnIds |-> "none"]
    /\ pTimers = 0
    /\ pDelays = {}
    /\ routesMounted = FALSE
    /\ initConn = NULL
    /\ req = IdleReq

ConsumerInit == InitConsumer /\ ProducerOff /\ ServiceOff

SpecConsumer == ConsumerInit /\ [][NextConsumer]_vars

\* ------------------------------------------------ processing capability alone
\* service.ts:16-21,130  a PromptService constructed with or without a provider
ServiceInit ==
    /\ ProducerOff
    /\ ConsumerOff
    /\ \E provider \in BOOLEAN : svc = [IdleSvc EXCEPT !.provider = provider]

SpecService == ServiceInit /\ [][NextService]_vars

\* ------------------------------------------------------------ both roles
\* The connection lifecycle of either process.  The message handlers of the
\* worker (Deliver, ProcessResolve, ProcessReject) write only deliv and
\* handled, which no lifecycle step reads except to keep a connection number
\* reserved, so the lifecycle is followed without message traffic.
RolesInit == ProducerInit \/ ConsumerInit

NextLifecycle ==
    \/ NextProducer
    \/ CConnectResolve
    \/ CConnectReject
    \/ \E k \in ConnIds : CCreateChannelResolve(k)
    \/ \E k \in ConnIds : CCreateChannelReject(k)
    \/ \E k \in ConnIds : CAssertQueueResolve(k)
    \/ \E k \in ConnIds : CAssertQueueReject(k)
    \/ \E k \in ConnIds : CCatchChannelClosed(k)
    \/ \E k \in ConnIds : CCatchConnectionClosed(k)
    \/ \E k \in ConnIds : CConnError(k)
    \/ \E k \in ConnIds : CConnClose(k)
    \/ \E k \in ConnIds : CChanClose(k)
    \/ CTimerFire
    \/ \E k \in ConnIds : DeliverNull(k)

SpecLifecycle == RolesInit /\ [][NextLifecycle]_vars

\* the 'close' event that amqplib emits after the 'error' event
PCloseAfterError == \E k \in ConnIds : pConn[k] = "erroring" /\ PConnClose(k)
CCloseAfterError == \E k \in ConnIds : cConn[k] = "erroring" /\ CConnClose(k)

\* a pending promise of the library settles (routes.ts:33,52,56)
PAnswer ==
    \/ PConnectResolve
    \/ PConnectReject
    \/ \E k \in ConnIds : \/ PCreateChannelResolve(k)
                          \/ PCreateChannelReject(k)
                          \/ PAssertQueueResolve(k)
                          \/ PAssertQueueReject(k)

\* a pending promise of the library settles (worker.ts:44,59,74,123,127)
CAnswer ==
    \/ CConnectResolve
    \/ CConnectReject
    \/ \E k \in ConnIds : \/ CCreateChannelResolve(k)
                          \/ CCreateChannelReject(k)
                          \/ CAssertQueueResolve(k)
                          \/ CAssertQueueReject(k)
                          \/ CCatchChannelClosed(k)
                          \/ CCatchConnectionClosed(k)

\* the broker refuses a connection or tears one down
PFault ==
    \/ PConnectReject
    \/ \E k \in ConnIds : \/ PConnError(k)
                          \/ pConn[k] = "open" /\ PConnClose(k)
                          \/ PChanClose(k)

CFault ==
    \/ CConnectReject
    \/ \E k \in ConnIds : \/ CConnError(k)
                          \/ cConn[k] = "open" /\ CConnClose(k)
                          \/ CChanClose(k)
                          \/ DeliverNull(k)

\* the process holds an open connection and an open channel with the queue
\* declared (and, in the worker, a subscription on it)
PUsable ==
    /\ rabbitConnection # NULL
    /\ rabbitChannel # NULL
    /\ pChan[rabbitChannel] = "open"
    /\ pStage[rabbitChannel] = "none"

CUsable ==
    /\ connection # NULL
    /\ channel # NULL
    /\ cChan[channel] = "open"
    /\ subs[channel] > 0

\* the event loop runs every timer that is due and every settled promise's
\* continuation; amqplib emits 'close' after 'error'
SpecLifecycleFair ==
    /\ SpecLifecycle
    /\ WF_vars(PTimerFire) /\ WF_vars(PCloseAfterError) /\ WF_vars(PAnswer)
    /\ WF_vars(CTimerFire) /\ WF_vars(CCloseAfterError) /\ WF_vars(CAnswer)

\* ------------------------------------------------------------ end to end
\* The API server and the worker joined by the queue, while the broker is
\* healthy: both connect, the server publishes, the broker delivers what was
\* published, unchanged, to the worker.
RelayInit == InitProducer /\ InitConsumer /\ capability /\ ServiceOff

\* routes.ts:115 -> worker.ts:79  a message of the submit last published is
\* delivered on subscribed channel k
RelayDeliver(m, k) ==
    \E j \in 1..Len(req.pubs) : Deliver(m, req.pubs[j].content, k)

\* worker.ts:79-91  a message put on the queue by another publisher, with a
\* body that the API server rejects, is delivered on subscribed channel k
ForeignDeliver(m, p, k) ==
    /\ MissingBodyAndRef(p)
    /\ Deliver(m, JSONStringify(Message(p)), k)

\* a JSON body with members the worker does not know, around the known ones
WithExtraFields(content) ==
    [content EXCEPT !.members = <<<<"priority", "high">>>> \o @ \o <<<<"note", "x">>>>]

\* worker.ts:79-99  a message of another publisher that carries unknown
\* members besides a body or a reference id is delivered on channel k
ExtraFieldDeliver(m, p, k) ==
    /\ ~MissingBodyAndRef(p)
    /\ Deliver(m, WithExtraFields(JSONStringify(Message(p))), k)

NextRelay ==
    \/ PConnectResolve
    \/ \E k \in ConnIds : PCreateChannelResolve(k)
    \/ \E k \in ConnIds : PAssertQueueResolve(k)
    \/ \E p \in Payloads : SubmitCall(p)
    \/ \E success \in BOOLEAN : SubmitAssertResolve(success)
    \/ CConnectResolve
    \/ \E k \in ConnIds : CCreateChannelResolve(k)
    \/ \E k \in ConnIds : CAssertQueueResolve(k)
    \/ \E m \in MsgIds, k \in ConnIds : RelayDeliver(m, k)
    \/ \E m \in MsgIds, p \in Payloads, k \in ConnIds : ForeignDeliver(m, p, k)
    \/ \E m \in MsgIds, p \in Payloads, k \in ConnIds : ExtraFieldDeliver(m, p, k)
    \/ \E m \in MsgIds : ProcessResolve(m)
    \/ \E m \in MsgIds : ProcessReject(m)

SpecRelay == RelayInit /\ [][NextRelay]_vars

\* ------------------------------------------------------ producer claims
\* the claims' own reading of a submission: body or reference id missing
NoBody(p) == p.promptText \in {Undefined, ""}
NoRef(p) == p.promptId \in {Undefined, ""}

\* C1: at most one connectToRabbitMQ call is in flight (started, not settled)
\* at any time in the producer process.
C1_AtMostOneAttemptInFlight == PInFlight <= 1

\* C5: a submit whose payload has neither body nor reference id answers 400
\* and touches nothing: no assertQueue, no publish, no connection attempt, no
\* timer, both handles as they were - whatever the connection state.
C5_RejectedTouchesNothing ==
    [][\A p \in Payloads : (SubmitCall(p) /\ NoBody(p) /\ NoRef(p)) =>
          /\ req'.pc = "done" /\ req'.status = 400
          /\ req'.asserts = 0 /\ req'.pubs = <<>>
          /\ PInFlight' = PInFlight /\ pTimers' = pTimers
          /\ rabbitChannel' = rabbitChannel /\ rabbitConnection' = rabbitConnection]_vars

\* C5 witness: a payload without body and reference was rejected while the
\* producer held a connection.
C5_Witness ==
    req.pc = "done" /\ NoBody(req.payload) /\ NoRef(req.payload) /\ req.status = 400
    /\ req.hadConn

\* C6 as stated: a valid submit with the channel handle absent answers 503 and
\* starts exactly one connection attempt, in every lifecycle state.
C6_UnavailableAlwaysNudges ==
    [][\A p \in Payloads :
          (SubmitCall(p) /\ ~(NoBody(p) /\ NoRef(p)) /\ rabbitChannel = NULL) =>
             /\ req'.pc = "done" /\ req'.status = 503
             /\ PInFlight' = PInFlight + 1]_vars

\* C6 amended: a valid submit with the channel handle absent answers 503 at
\* once; it starts exactly one connection attempt when the connection handle
\* is absent too, and none when a connection handle is cached.
C6_UnavailableNudgesWhenNoConnection ==
    [][\A p \in Payloads :
          (SubmitCall(p) /\ ~(NoBody(p) /\ NoRef(p)) /\ rabbitChannel = NULL) =>
             /\ req'.pc = "done" /\ req'.status = 503 /\ req'.error = "unavailable"
             /\ req'.asserts = 0 /\ req'.pubs = <<>>
             /\ PInFlight' = PInFlight + (IF rabbitConnection = NULL THEN 1 ELSE 0)
             /\ pTimers' = pTimers]_vars

\* C6 witness: a valid submit found no connection, answered 503 and started
\* an attempt.
C6_Witness ==
    req.pc = "done" /\ req.status = 503 /\ req.error = "unavailable"
    /\ ~req.hadConn /\ req.started = 1

\* C7 as stated: every finished submit ended accepted, rejected or unavailable.
C7_ThreeOutcomes == req.pc = "done" => req.status \in {202, 400, 503}

\* C7 amended: every finished submit ended in one of four outcomes: accepted
\* (202), rejected (400), unavailable (503) or internal fault (500); the
\* internal fault only after the queue was touched and nothing was published.
C7_FourOutcomes ==
    req.pc = "done" =>
       /\ req.status \in {202, 400, 503, 500}
       /\ req.status = 500 => req.asserts = 1 /\ req.pubs = <<>>

\* C7 witness: a submit ended with the internal fault.
C7_Witness == req.pc = "done" /\ req.status = 500

\* C8 as stated: a submit that met a connection-level failure (handle absent
\* at the check, or assertQueue/publish failing on a closed channel) answers
\* Unavailable and nothing else.
C8_FailureOnlyUnavailable ==
    req.pc = "done" /\ req.error \in {"unavailable", "internal"} => req.status = 503

\* C8 amended: a connection-level failure that cleared a handle before the
\* availability check is answered 503; one that leaves a closed channel cached
\* or strikes between the check and the publish is answered with the internal
\* fault 500 and nothing is published; it is never answered 202 or 400.
C8_FailureUnavailableOrInternal ==
    [][/\ \A p \in Payloads :
            (SubmitCall(p) /\ ~(NoBody(p) /\ NoRef(p))) =>
               /\ (rabbitChannel = NULL \/ rabbitConnection = NULL) =>
                     req'.pc = "done" /\ req'.status = 503
               /\ (rabbitChannel # NULL /\ rabbitConnection # NULL
                   /\ pChan[rabbitChannel] # "open") =>
                     req'.pc = "done" /\ req'.status = 500 /\ req'.pubs = <<>>
       /\ (req.pc = "assertQueue" /\ req'.pc = "done"
           /\ (pChan[req.ch] # "open" \/ rabbitChannel = NULL
               \/ pChan[IF rabbitChannel = NULL THEN req.ch ELSE rabbitChannel] # "open")) =>
             req'.status = 500 /\ req'.pubs = <<>>]_vars

\* C8 witness: a submit that had passed the availability check got the
\* internal fault, and a connection has closed (handles cleared, retry pending).
C8_Witness ==
    req.pc = "done" /\ req.status = 500 /\ req.error = "internal" /\ req.asserts = 1
    /\ rabbitChannel = NULL /\ rabbitConnection = NULL /\ pTimers > 0

\* the submit passed the availability check with a body and no reference id
BodyNoRefChecked ==
    req.pc = "done" /\ ~NoBody(req.payload) /\ req.payload.promptId = Undefined
    /\ req.asserts = 1

PublishedAsClaimed(pub) ==
    /\ pub.queue = "prompt_tasks_queue"
    /\ pub.persistent
    /\ ~ParseThrows(pub.content)
    /\ JSONParse(pub.content) = req.payload

\* C9 as stated: such a submit made exactly one publish, to the fixed queue,
\* persistent, its JSON payload equal to the input fields, and answered 202
\* exactly when the publish returned true.
C9_ExactlyOnePublish ==
    BodyNoRefChecked =>
       /\ Len(req.pubs) = 1
       /\ PublishedAsClaimed(req.pubs[1])
       /\ req.status = 202 <=> req.pubs[1].returned

\* C9 amended: such a submit made at most one publish, and exactly one unless
\* assertQueue or the publish call threw (then 500 and no publish); the publish
\* is to the fixed queue, persistent, its JSON payload equal to the input
\* fields; it answered 202 exactly when a publish was made and returned true.
C9_OnePublishUnlessThrown ==
    BodyNoRefChecked =>
       /\ Len(req.pubs) <= 1
       /\ Len(req.pubs) = 0 <=> req.status = 500
       /\ \A j \in 1..Len(req.pubs) : PublishedAsClaimed(req.pubs[j])
       /\ req.status = 202 <=> (Len(req.pubs) = 1 /\ req.pubs[1].returned)
       /\ req.status \in {202, 503, 500}

\* C9 witness: a body-only submit was published and accepted.
C9_Witness ==
    BodyNoRefChecked /\ req.status = 202 /\ Len(req.pubs) = 1
    /\ req.payload.requestedModel # Undefined

\* ------------------------------------------------------ consumer claims
\* C2: at most one connectAndConsume run is in flight and at most one retry
\* timer is pending at any time in the consumer process.
C2_OneAttemptOneTimer == CInFlight <= 1 /\ cTimers <= 1

\* C3: a message that decoded, validated and whose processPrompt call resolved
\* has been acknowledged exactly once and never nacked.
C3_ResolvedAckedOnce ==
    handled.result = "resolved" =>
       /\ Len(handled.settled) = 1
       /\ handled.settled[1].op = "ack"

\* C4: at no time are two processPrompt calls in flight in one consumer.
C4_OneDispatchAtATime ==
    Cardinality({m \in MsgIds : deliv[m].pc = "processing"}) <= 1

\* C10: a delivered message whose body is not JSON has been discarded with
\* nack(requeue=false), never acknowledged, and processPrompt was not called.
C10_UndecodableNacked ==
    (handled.result # "none" /\ ~handled.content.wellFormed) =>
       /\ handled.invoked = 0
       /\ Len(handled.settled) = 1
       /\ handled.settled[1].op = "nack"
       /\ ~handled.settled[1].requeue

\* C11: a delivered message that decodes but has neither promptText nor
\* promptId has been discarded with nack(requeue=false), exactly as a decode
\* failure is, never acknowledged, and processPrompt was not called.
C11_InvalidNacked ==
    (/\ handled.result # "none"
     /\ handled.content.wellFormed
     /\ Member(handled.content, "promptText") \in {Undefined, ""}
     /\ Member(handled.content, "promptId") \in {Undefined, ""}) =>
       /\ handled.invoked = 0
       /\ Len(handled.settled) = 1
       /\ handled.settled[1].op = "nack"
       /\ ~handled.settled[1].requeue

\* C12: a delivered message that decoded and validated and whose processPrompt
\* call rejected has been discarded with nack(requeue=false), never
\* acknowledged, never requeued by the consumer.
C12_RejectedNacked ==
    handled.result = "rejected" =>
       /\ Len(handled.settled) = 1
       /\ handled.settled[1].op = "nack"
       /\ ~handled.settled[1].requeue

\* C13: when the subscription yields a null delivery, the handler acks and
\* nacks nothing, does not call processPrompt, and leaves the connection and
\* channel variables as they were.
C13_NullDeliveryTouchesNothing ==
    [][\A k \in ConnIds : DeliverNull(k) =>
          /\ handled' = handled
          /\ deliv' = deliv
          /\ connection' = connection
          /\ channel' = channel
          /\ cTimers' = cTimers /\ CInFlight' = CInFlight]_vars

\* C13 witness: the consumer registered on the channel its variable still
\* holds was cancelled by a null delivery, and the variables still hold the
\* open connection and channel.
C13_Witness ==
    \E k \in ConnIds :
       /\ channel = k /\ connection = k
       /\ cChan[k] = "open" /\ cStage[k] = "none"
       /\ subs[k] = 0

\* ------------------------------------------------------ claims on both roles
\* C14: in either role, when a connection closes by itself the close handler
\* clears both cached handles and schedules exactly one reconnect, with the
\* delay of 5000 ms, and starts no attempt itself.
C14_CloseSchedulesOneRetry ==
    [][/\ \A k \in ConnIds : PConnClose(k) =>
             /\ rabbitConnection' = NULL /\ rabbitChannel' = NULL
             /\ pTimers' = pTimers + 1
             /\ pDelays' = {5000}
             /\ PInFlight' = PInFlight
       /\ \A k \in ConnIds : CConnClose(k) =>
             /\ connection' = NULL /\ channel' = NULL
             /\ cTimers' = cTimers + 1
             /\ cDelays' = {5000}
             /\ CInFlight' = CInFlight]_vars

\* C14 witness: the producer was connected (a submit was accepted), then its
\* connection closed: nothing cached, nothing in flight, one timer of 5000 ms.
C14_Witness ==
    /\ req.pc = "done" /\ req.status = 202
    /\ rabbitConnection = NULL /\ rabbitChannel = NULL
    /\ PInFlight = 0 /\ pTimers = 1 /\ pDelays = {5000}
    /\ \A k \in ConnIds : pConn[k] = "none"

\* C15 (the claim fails in the producer role): every publish goes through a
\* channel on which an assertQueue call has resolved before: the one this
\* submit awaited, or the one of the connectToRabbitMQ call that created it.
C15_DeclaredBeforePublish ==
    [][\A success \in BOOLEAN :
          (SubmitAssertResolve(success) /\ Len(req'.pubs) > Len(req.pubs)) =>
             \/ rabbitChannel = req.ch
             \/ pStage[rabbitChannel] = "none"]_vars

\* a connectToRabbitMQ call ends in its catch block in this step
PAttemptThrows ==
    \/ PConnectReject
    \/ \E k \in ConnIds : PCreateChannelReject(k) \/ PAssertQueueReject(k)

\* C16: in either role, an attempt that throws leaves both handles cleared
\* and a retry scheduled with the delay of 5000 ms; an attempt that succeeds
\* leaves the process holding an open connection and an open channel with the
\* queue declared on it (and, in the consumer, a subscription registered).
C16_ThrowRetriesSuccessUsable ==
    [][/\ PAttemptThrows =>
             /\ rabbitConnection' = NULL /\ rabbitChannel' = NULL
             /\ pTimers' = pTimers + 1 /\ pDelays' = {5000}
       /\ \A k \in ConnIds : PAssertQueueResolve(k) =>
             /\ rabbitConnection' # NULL /\ pConn'[rabbitConnection'] = "open"
             /\ rabbitChannel' # NULL /\ pChan'[rabbitChannel'] = "open"
             /\ pStage'[rabbitChannel'] = "none"
       /\ (NextConsumer /\ CInFlight' < CInFlight) =>
             \/ /\ connection' = NULL /\ channel' = NULL
                /\ cTimers' > cTimers /\ cDelays' = {5000}
             \/ /\ cTimers' = cTimers
                /\ connection' # NULL /\ cConn'[connection'] = "open"
                /\ channel' # NULL /\ cChan'[channel'] = "open"
                /\ cStage'[channel'] = "none"
                /\ subs'[channel'] > 0]_vars

\* C17 as stated: in both roles alike, a connection 'error' event clears the
\* cached connection and channel handles and schedules no retry in that step.
C17_ErrorClearsHandlesBothRoles ==
    [][/\ \A k \in ConnIds : PConnError(k) =>
             /\ rabbitConnection' = NULL /\ rabbitChannel' = NULL
             /\ pTimers' = pTimers /\ PInFlight' = PInFlight
       /\ \A k \in ConnIds : CConnError(k) =>
             /\ connection' = NULL /\ channel' = NULL
             /\ cTimers' = cTimers /\ CInFlight' = CInFlight]_vars

\* C17 amended: a connection 'error' event makes the producer clear both
\* cached handles; the consumer keeps both variables as they are (its paired
\* 'close' event clears them); neither role schedules a retry or starts an
\* attempt in that step.
C17_ErrorClearsProducerHandlesOnly ==
    [][/\ \A k \in ConnIds : PConnError(k) =>
             /\ rabbitConnection' = NULL /\ rabbitChannel' = NULL
             /\ pTimers' = pTimers /\ PInFlight' = PInFlight
       /\ \A k \in ConnIds : CConnError(k) =>
             /\ connection' = connection /\ channel' = channel
             /\ cTimers' = cTimers /\ CInFlight' = CInFlight]_vars

\* C17 witness: the connected worker's connection has reported an error and
\* the worker still holds the connection and the channel.
C17_Witness ==
    \E k \in ConnIds :
       /\ cConn[k] = "erroring"
       /\ connection = k /\ channel = k
       /\ subs[k] > 0 /\ cTimers = 0

\* C18: in both roles alike, when the cached channel closes by itself the
\* channel handle is cleared and nothing else: the connection handle stays and
\* no retry is scheduled and no attempt started by that event.
C18_ChannelCloseClearsChannelOnly ==
    [][/\ \A k \in ConnIds : (PChanClose(k) /\ rabbitChannel = k) =>
             /\ rabbitChannel' = NULL
             /\ rabbitConnection' = rabbitConnection
             /\ pTimers' = pTimers /\ PInFlight' = PInFlight
       /\ \A k \in ConnIds : (CChanClose(k) /\ channel = k) =>
             /\ channel' = NULL
             /\ connection' = connection
             /\ cTimers' = cTimers /\ CInFlight' = CInFlight]_vars

\* C19: in either role the process never stays disconnected without trying
\* again: whenever its connection handle is absent, an attempt is or comes to
\* be in flight; and once the broker stops refusing and tearing down
\* connections, a process whose connection handle is absent comes to hold a
\* usable channel (in runs of the worker that do not stay at the token bound).
C19_RetriesForever ==
    /\ (routesMounted /\ rabbitConnection = NULL) ~> (PInFlight > 0)
    /\ (capability /\ connection = NULL) ~> (CInFlight > 0)
    /\ (<>[][~PFault]_vars) =>
          ((routesMounted /\ rabbitConnection = NULL) ~> PUsable)
    /\ (<>[][~CFault]_vars /\ []<>(CTokens < MaxTokens)) =>
          ((capability /\ connection = NULL) ~> CUsable)

\* C19 witness: after a failed attempt, with no submit ever made, the retry
\* timer has fired and a new attempt is in flight.
C19_Witness ==
    /\ routesMounted /\ req.pc = "idle"
    /\ rabbitConnection = NULL /\ rabbitChannel = NULL
    /\ pConnecting = 1 /\ pTimers = 0 /\ pDelays = {5000}

\* C20: in either role the process owns at most one open connection and at
\* most one open channel, and every connection it has open is the one its
\* cached handle refers to.
C20_OneConnectionNoLeak ==
    /\ Cardinality({k \in ConnIds : pConn[k] = "open"}) <= 1
    /\ Cardinality({k \in ConnIds : pChan[k] = "open"}) <= 1
    /\ \A k \in ConnIds : pConn[k] = "open" => rabbitConnection = k
    /\ Cardinality({k \in ConnIds : cConn[k] = "open"}) <= 1
    /\ Cardinality({k \in ConnIds : cChan[k] = "open"}) <= 1
    /\ \A k \in ConnIds : cConn[k] = "open" => connection = k

\* ------------------------------------------------------ startup, validation
\* C21: a worker whose processing capability is missing at startup never
\* starts its loop: no connectAndConsume run, no connection or channel, no
\* subscription, no retry timer, no delivery handled - in every state.
C21_NoCapabilityNeverStarts ==
    ~capability =>
       /\ CInFlight = 0 /\ cTimers = 0 /\ cDelays = {}
       /\ connection = NULL /\ channel = NULL
       /\ \A k \in ConnIds : cConn[k] = "none" /\ cChan[k] = "none" /\ subs[k] = 0
       /\ \A m \in MsgIds : deliv[m].pc = "none"
       /\ handled = NoneHandled

\* C21 witness: the worker process has been loaded without the capability
\* (the API server's variables are those of a process that is not running).
C21_Witness == ~capability /\ cConnecting = 0 /\ pConnecting = 0 /\ ~routesMounted

\* C22: when sendToQueue returns false (write buffer full) the submit answers
\* 503 overloaded, starts no connection attempt, schedules no retry and leaves
\* the connection and channel handles as they were.
C22_OverloadedUnavailable ==
    [][\A success \in BOOLEAN :
          (/\ SubmitAssertResolve(success)
           /\ Len(req'.pubs) > Len(req.pubs)
           /\ ~req'.pubs[Len(req'.pubs)].returned) =>
             /\ req'.pc = "done" /\ req'.status = 503 /\ req'.error = "overloaded"
             /\ PInFlight' = PInFlight /\ pTimers' = pTimers
             /\ rabbitChannel' = rabbitChannel
             /\ rabbitConnection' = rabbitConnection]_vars

\* C22 witness: a submit was published, sendToQueue returned false, and the
\* producer still holds its open channel.
C22_Witness ==
    /\ req.pc = "done" /\ req.status = 503
    /\ Len(req.pubs) = 1 /\ ~req.pubs[1].returned
    /\ rabbitChannel # NULL /\ rabbitConnection # NULL
    /\ pChan[rabbitChannel] = "open"

\* assertQueue or sendToQueue throws in this step of the submit handler: the
\* cached channel is closed when assertQueue is called, the awaited
\* assertQueue rejects, or the handle is null or closed at sendToQueue
SubmitThrows ==
    \/ \E p \in Payloads :
          /\ SubmitCall(p) /\ ~MissingBodyAndRef(p) /\ ~ChannelUnavailable
          /\ pChan[rabbitChannel] # "open"
    \/ SubmitAssertReject
    \/ \E success \in BOOLEAN :
          /\ SubmitAssertResolve(success)
          /\ (rabbitChannel = NULL \/ pChan[rabbitChannel] # "open")

\* C23: when assertQueue or the publish throws during a submit, the submit
\* answers the internal fault (500) without publishing, and that step writes
\* neither handle, starts no connection attempt and schedules no retry.
C23_ThrowAnswersInternalOnly ==
    [][SubmitThrows =>
          /\ req'.pc = "done" /\ req'.status = 500 /\ req'.error = "internal"
          /\ req'.pubs = <<>>
          /\ rabbitChannel' = rabbitChannel /\ rabbitConnection' = rabbitConnection
          /\ PInFlight' = PInFlight /\ pTimers' = pTimers
          /\ pDelays' = pDelays]_vars

\* C23 witness: assertQueue threw or rejected (its channel was closed alone),
\* the submit answered 500, and the closed channel is still cached with
\* no attempt in flight and no timer pending.
C23_Witness ==
    /\ req.pc = "done" /\ req.status = 500 /\ req.asserts = 1
    /\ rabbitChannel # NULL /\ rabbitConnection # NULL
    /\ pChan[rabbitChannel] = "closed"
    /\ PInFlight = 0 /\ pTimers = 0

\* C24: a finished submit was rejected (400) exactly when its body and its
\* reference id were both absent or empty; a submission with either of them
\* (a reference id alone included) whose publish was made and returned true
\* was accepted (202), and every accepted submission made one publish whose
\* JSON payload carries the given fields.
C24_RejectedIffBothMissing ==
    req.pc = "done" =>
       /\ req.status = 400 <=> (NoBody(req.payload) /\ NoRef(req.payload))
       /\ (Len(req.pubs) > 0 /\ req.pubs[Len(req.pubs)].returned) => req.status = 202
       /\ req.status = 202 => Len(req.pubs) = 1 /\ PublishedAsClaimed(req.pubs[1])

\* C24 witness: a submission with a reference id and no body was published
\* and accepted.
C24_Witness ==
    /\ req.pc = "done" /\ req.status = 202
    /\ NoBody(req.payload) /\ req.payload.promptId = "test_id"
    /\ Len(req.pubs) = 1
    /\ Member(req.pubs[1].content, "promptId") = "test_id"

\* C25: the API server and the worker apply the same 'body or reference id'
\* test: every message the server published, delivered unchanged, decodes,
\* passes the worker's validation and reaches the processPrompt call with its
\* content intact; every body the server rejects takes the worker's discard
\* branch (worker.ts:87-91) and processPrompt is not called for it.
C25_SameValidationBothEnds ==
    [][/\ \A m \in MsgIds, k \in ConnIds : RelayDeliver(m, k) =>
             /\ deliv'[m].pc = "processing"
             /\ \E j \in 1..Len(req.pubs) :
                   /\ deliv'[m].content = req.pubs[j].content
                   /\ JSONParse(deliv'[m].content) = req.payload
             /\ handled' = handled
       /\ \A m \in MsgIds, p \in Payloads, k \in ConnIds : ForeignDeliver(m, p, k) =>
             /\ deliv' = deliv
             /\ handled'.result = "invalid" /\ handled'.invoked = 0
             /\ \A j \in 1..Len(handled'.settled) :
                   handled'.settled[j].op = "nack" /\ ~handled'.settled[j].requeue]_vars

\* C25 witness: a submission with a reference id and no body was accepted and
\* its message is being processed by the worker.
C25_Witness ==
    /\ req.pc = "done" /\ req.status = 202 /\ NoBody(req.payload)
    /\ \E m \in MsgIds :
          /\ deliv[m].pc = "processing"
          /\ Member(deliv[m].content, "promptId") = "test_id"
          /\ Member(deliv[m].content, "promptText") = req.payload.promptText

\* ------------------------------------------------------ settlement claims
\* C26: every ack or nack a handler issued went to the channel that delivered
\* its message, never to a channel created by a later reconnect.
C26_SettledOnDeliveringChannel ==
    \A j \in 1..Len(handled.settled) : handled.settled[j].same

\* C27: no handler of a delivered message has finished without issuing a
\* settlement (an ack, or a nack without requeue) for it, also when the
\* channel variable was cleared while processPrompt was awaited.
C27_FinishedHandlerSettled ==
    handled.result # "none" =>
       /\ Len(handled.settled) >= 1
       /\ \A j \in 1..Len(handled.settled) :
             \/ handled.settled[j].op = "ack"
             \/ handled.settled[j].op = "nack" /\ ~handled.settled[j].requeue

C29_ChannelOnCachedConnection ==
    /\ rabbitChannel # NULL => rabbitConnection = rabbitChannel
    /\ channel # NULL => connection = channel

\* C30: in the API server, whenever a submit passes the availability check
\* (both handles set), the cached channel is open: a channel that closed
\* alone is not left cached for a later submit to call assertQueue or
\* sendToQueue on.
C30_CheckedChannelOpen ==
    [][\A p \in Payloads :
          (SubmitCall(p) /\ ~(NoBody(p) /\ NoRef(p)) /\ ~ChannelUnavailable) =>
             pChan[rabbitChannel] = "open"]_vars

\* ------------------------------------------------------ recovery, supersession
\* C31: once the broker stops refusing and tearing down, a worker that is
\* connected but holds no channel (its channel closed alone) comes to hold a
\* channel with a subscription registered on it again (in runs that do not
\* stay at the token bound).
C31_ChannelCloseRecovers ==
    (<>[][~CFault]_vars /\ []<>(CTokens < MaxTokens)) =>
       ((capability /\ connection # NULL /\ channel = NULL) ~> CUsable)

\* C32: in either role, a close or error event of a connection that has been
\* superseded (the cached connection handle refers to another, later one)
\* leaves the cached handles of the current connection as they are.
C32_StaleEventKeepsHandles ==
    [][/\ \A k \in ConnIds :
             ((PConnClose(k) \/ PConnError(k))
              /\ rabbitConnection # NULL /\ rabbitConnection # k) =>
                /\ rabbitConnection' = rabbitConnection
                /\ rabbitChannel = rabbitConnection => rabbitChannel' = rabbitChannel
       /\ \A k \in ConnIds :
             ((CConnClose(k) \/ CConnError(k))
              /\ connection # NULL /\ connection # k) =>
                /\ connection' = connection
                /\ channel = connection => channel' = channel]_vars

\* channels of the worker that are open and have a consume registration
Subscribed == {k \in ConnIds : cChan[k] = "open" /\ subs[k] > 0}

\* C33: the worker has at most one active subscription on the queue at any
\* time: at most one open channel with consume registered, and consume
\* registered on it once.
C33_AtMostOneSubscription ==
    /\ Cardinality(Subscribed) <= 1
    /\ \A k \in ConnIds : subs[k] <= 1

\* ------------------------------------------------------ order of the steps
\* a connectAndConsume run ends in its catch block in this step
CAttemptThrows ==
    \/ CConnectReject
    \/ \E k \in ConnIds : CCreateChannelReject(k) \/ CAssertQueueReject(k)

\* C34: in either role an attempt goes connect, createChannel, assertQueue
\* (durable) and, in the worker, consume (manual acknowledgment), in that
\* order: an attempt's stage only moves forward through them or ends in its
\* catch block; a subscription is registered only in the step in which an
\* attempt's assertQueue has resolved, one at a time; an attempt that throws
\* registers none.
C34_StepsInOrder ==
    [][/\ PAssertQueueOptions.durable /\ CAssertQueueOptions.durable
       /\ CAssertQueueOptions.queue = ConsumeOptions.queue /\ ~ConsumeOptions.noAck
       /\ \A k \in ConnIds : pStage'[k] # pStage[k] =>
             \/ /\ pStage[k] = "none" /\ pStage'[k] = "createChannel"
                /\ pConn[k] = "none" /\ pConn'[k] = "open" /\ rabbitConnection' = k
             \/ /\ pStage[k] = "createChannel" /\ pStage'[k] = "assertQueue"
                /\ pChan'[k] = "open" /\ rabbitChannel' = k
             \/ /\ pStage[k] = "assertQueue" /\ pStage'[k] = "none"
                /\ (pChan[k] = "open" /\ pTimers' = pTimers) \/ PAttemptThrows
             \/ /\ pStage[k] = "createChannel" /\ pStage'[k] = "none"
                /\ PAttemptThrows
       /\ \A k \in ConnIds : cStage'[k] # cStage[k] =>
             \/ /\ cStage[k] = "none" /\ cStage'[k] = "createChannel"
                /\ cConn[k] = "none" /\ cConn'[k] = "open" /\ connection' = k
             \/ /\ cStage[k] = "createChannel" /\ cStage'[k] = "assertQueue"
                /\ cChan'[k] = "open" /\ channel' = k
             \/ /\ cStage[k] = "assertQueue" /\ cStage'[k] = "none"
             \/ /\ cStage[k] = "createChannel" /\ cStage'[k] = "none"
                /\ CAttemptThrows
       /\ \A c \in ConnIds : subs'[c] > subs[c] =>
             /\ subs'[c] = subs[c] + 1
             /\ \E k \in ConnIds :
                   /\ cStage[k] = "assertQueue" /\ cStage'[k] = "none"
                   /\ cChan[k] = "open"
             /\ ~CAttemptThrows
             /\ cTimers' = cTimers /\ CInFlight' = CInFlight - 1
       /\ CAttemptThrows => \A c \in ConnIds : subs'[c] <= subs[c]]_vars

\* C34 witness: the worker's first attempt went through all four steps: it
\* holds connection and channel, one subscription, and no retry was ever
\* scheduled.
C34_Witness ==
    \E k \in ConnIds :
       /\ connection = k /\ channel = k
       /\ cConn[k] = "open" /\ cChan[k] = "open"
       /\ cStage[k] = "none" /\ subs[k] = 1
       /\ CInFlight = 0 /\ cTimers = 0 /\ cDelays = {}

\* C35: a submit publishes only in the step in which the assertQueue it
\* awaited (durable, same queue) has resolved, once, and persistent; a submit
\* whose assertQueue rejects publishes nothing and answers 500; nothing is
\* published in the step that calls assertQueue.
C35_AssertThenPublish ==
    [][/\ Len(req'.pubs) > Len(req.pubs) =>
             /\ req.pc = "assertQueue" /\ req.asserts = 1 /\ req.pubs = <<>>
             /\ pChan[req.ch] = "open"
             /\ PAssertQueueOptions.durable
             /\ Len(req'.pubs) = 1
             /\ req'.pubs[1].queue = PAssertQueueOptions.queue
             /\ req'.pubs[1].persistent
       /\ SubmitAssertReject => req'.pubs = <<>> /\ req'.status = 500
       /\ \A p \in Payloads : SubmitCall(p) => req'.pubs = <<>>]_vars

\* C35 witness: a submit with a body alone awaited its assertQueue, published
\* once and was accepted.
C35_Witness ==
    /\ req.pc = "done" /\ req.status = 202 /\ req.asserts = 1
    /\ req.payload.promptText = "Test prompt"
    /\ req.payload.requestedModel = Undefined
    /\ Len(req.pubs) = 1 /\ req.pubs[1].persistent

\* ------------------------------------------------------ retry delay
\* C36: every retry either role schedules, after a failed attempt or after a
\* close event and whatever failed before, waits the same 5000 ms, and the two
\* roles use the same value; a failed attempt and a close always schedule a
\* retry, however many were scheduled before.
C36_FixedRetryDelay ==
    [][/\ RECONNECT_DELAY_MS = 5000 /\ WORKER_RECONNECT_DELAY_MS = RECONNECT_DELAY_MS
       /\ pTimers' > pTimers => pDelays' = {5000}
       /\ cTimers' > cTimers => cDelays' = {5000}
       /\ pDelays' # pDelays => pTimers' > pTimers
       /\ cDelays' # cDelays => cTimers' > cTimers
       /\ (PAttemptThrows \/ \E k \in ConnIds : PConnClose(k)) => pTimers' = pTimers + 1
       /\ (\E k \in ConnIds : CConnClose(k)) => cTimers' = cTimers + 1
       /\ CAttemptThrows => cTimers' = cTimers + 1 \/ CInFlight' = CInFlight
       /\ (\E k \in ConnIds : CCatchConnectionClosed(k)) => cTimers' > cTimers]_vars

\* C36 witness: an attempt of the worker has failed, nothing is in flight
\* and its retry is pending; 5000 ms is the only delay ever used.
C36_Witness ==
    /\ capability /\ connection = NULL /\ channel = NULL
    /\ \A k \in ConnIds : cConn[k] = "none" /\ subs[k] = 0
    /\ CInFlight = 0 /\ cTimers = 1 /\ cDelays = {5000}

\* ------------------------------------------------------ dispatch, processPrompt
\* C37: every valid message is dispatched with exactly its body, model
\* override, enhancement flag and reference id, absent fields absent; unknown
\* members of the message change neither the validation nor the arguments;
\* and processPrompt is called once per message.
C37_DispatchedWithMessageFields ==
    [][/\ \A m \in MsgIds, k \in ConnIds : RelayDeliver(m, k) =>
             /\ deliv'[m].pc = "processing"
             /\ deliv'[m].args = req.payload
       /\ \A m \in MsgIds, p \in Payloads, k \in ConnIds : ExtraFieldDeliver(m, p, k) =>
             /\ deliv'[m].pc = "processing"
             /\ Len(deliv'[m].content.members) > 2
             /\ deliv'[m].args = p
       /\ \A m \in MsgIds : (ProcessResolve(m) \/ ProcessReject(m)) =>
             /\ handled'.invoked = 1
             /\ deliv'[m].pc = "none"]_vars

\* C37 witness: a message with a body, a model override, the enhancement flag
\* and two unknown members is being processed with the three known values
\* and no reference id.
C37_Witness ==
    \E m \in MsgIds :
       /\ deliv[m].pc = "processing"
       /\ Member(deliv[m].content, "note") = "x"
       /\ deliv[m].args = Payload("Test prompt", "gpt-4", "true", Undefined)

\* C38: a call with a reference id that the library does not hold and with no
\* body ends with the 'not found in database and no fallback promptText
\* provided' error, which is not the retrieval-failure error, and the
\* language model is not called.
C38_NotFoundHasItsOwnError ==
    (svc.pc = "done" /\ svc.row = "notfound" /\ Falsy(svc.args.promptText)) =>
        /\ svc.outcome = "error"
        /\ svc.error = ErrNotFound
        /\ svc.error # ErrRetrieve
        /\ svc.llmCalls = 0

\* C39: whenever the composed text (library text and body, before any
\* enhancement) is empty or only whitespace, the call fails and the language
\* model is not called, whatever the enhancement flag.
C39_EmptyTextNeverSent ==
    (svc.pc \in {"llm", "done"} /\ EmptyOrWhitespace(svc.composed)) =>
        /\ svc.llmCalls = 0
        /\ svc.pc = "done"
        /\ svc.outcome = "error"

====
